---------------------------- MODULE Spec2Model ----------------------------
(***************************************************************************)
(* A model of backend/core/telemetry.py: the process-wide tracer handle,   *)
(* the trace_function decorator (sync and async wrappers), the trace_span  *)
(* context manager, the current-span utilities and _detect_api_provider.   *)
(*                                                                         *)
(* The OpenTelemetry objects the module drives (Span, Status, the context  *)
(* that holds the current span, start_as_current_span) are modelled by     *)
(* what the OpenTelemetry API/SDK does at the places the module calls      *)
(* them.                                                                   *)
(***************************************************************************)
EXTENDS Integers, Sequences, FiniteSets, TLC

(***************************************************************************)
(* Bounds of the model.                                                    *)
(***************************************************************************)
\* wrapper calls and scopes open at one time, all call chains together
MaxOpen == 2
\* changes the utilities have made to the spans that are open
MaxChanges == 1
\* calls of init_telemetry in one run (the import-time one included)
MaxInit == 2
\* pieces a request URL is assembled from
MaxPieces == 2

\* The logical call chains (threads or asyncio tasks) that run concurrently.
\* Each has a context of its own (contextvars).
Chains == {"t1", "t2"}

(***************************************************************************)
(* Values.                                                                 *)
(***************************************************************************)
\* tracer: Optional[trace.Tracer] = None
NoTracer == 0
\* trace.INVALID_SPAN, what get_current_span() returns when no span is set
\* in the context: a span that is not recording.
NoSpan == 0
\* Python's None as a value or a span name
None == "None"
\* a status without a description (description=None)
NoDescription == <<>>

\* Exceptions: type name, message, and whether the type derives from
\* Exception (KeyboardInterrupt and asyncio.CancelledError derive from
\* BaseException only).
ValueErrorBad == [type |-> "ValueError", msg |-> "bad", exc |-> TRUE]
KeyboardInt == [type |-> "KeyboardInterrupt", msg |-> "", exc |-> FALSE]
CancelledError == [type |-> "CancelledError", msg |-> "", exc |-> FALSE]
\* raised by `tracer.start_as_current_span` when tracer is None
AttributeErrorNone ==
    [type |-> "AttributeError",
     msg |-> "'NoneType' object has no attribute 'start_as_current_span'",
     exc |-> TRUE]
NoError == [type |-> None, msg |-> "", exc |-> FALSE]

\* str(e)
Str(e) == <<e.msg>>
\* f"{type(exc).__name__}: {exc}"
TypeAndStr(e) == <<e.type, ": ", e.msg>>

\* What a call delivers to its caller.
Returned(v) == [kind |-> "return", value |-> v, err |-> NoError]
Raised(e) == [kind |-> "raise", value |-> None, err |-> e]

(***************************************************************************)
(* The instrumented callables.  A callable is run on an input and returns  *)
(* a value or raises.                                                      *)
(***************************************************************************)
Inputs == {"", "a"}
\* a plain function, a coroutine function, the block of a with statement
SyncFuncs == {"checked"}
AsyncFuncs == {"fetch"}
Blocks == {"block"}

\* asyncio.iscoroutinefunction(func)
iscoroutinefunction(f) == f \in AsyncFuncs

\* func(*args, **kwargs)
Apply(f, x) ==
    CASE f = "checked" -> IF x = "" THEN Raised(ValueErrorBad) ELSE Returned("A")
      [] f = "fetch" -> IF x = "" THEN Raised(ValueErrorBad) ELSE Returned("body")
      [] f = "block" -> IF x = "" THEN Raised(ValueErrorBad) ELSE Returned(None)

\* attribute dictionaries
Keys == {"db.system", "note"}
NoAttributes == [k \in Keys |-> None]
DbAttributes == [NoAttributes EXCEPT !["db.system"] = "neo4j"]

\* The instrumented code of the program:
\*   @trace_function()                       def checked(x)
\*   @trace_function("x", {"db.system": ..}) async def fetch(x)
\*   with trace_span("scope", {"db.system": ..}): block
span_name_of(f) == IF f = "fetch" THEN "x" ELSE None
attributes_of(f) == IF f = "checked" THEN NoAttributes ELSE DbAttributes

(***************************************************************************)
(* OpenTelemetry spans, as the SDK behaves where the module calls it.      *)
(***************************************************************************)
\* trace.Status(code, description): the description is kept for ERROR only
Status(code, description) ==
    [status_code |-> code,
     description |-> IF code = "ERROR" THEN description ELSE NoDescription]

\* the span tracer.start_as_current_span(name) starts
NewSpan(name, chain) ==
    [name |-> name,
     chain |-> chain,   \* the call chain that started it
     status |-> Status("UNSET", NoDescription),
     attributes |-> NoAttributes,
     events |-> <<>>,
     end_calls |-> 0]

\* span.is_recording(): until the span has ended
is_recording(s) == s.end_calls = 0

\* span.set_attribute(key, value)
set_attribute(s, key, value) ==
    IF is_recording(s) THEN [s EXCEPT !.attributes[key] = value] ELSE s

\* the loop `for key, value in attributes.items(): span.set_attribute(...)`
RECURSIVE set_attributes(_, _, _)
set_attributes(s, attributes, keys) ==
    IF keys = {} THEN s
    ELSE LET k == CHOOSE k \in keys : TRUE
         IN set_attributes(IF attributes[k] = None THEN s
                           ELSE set_attribute(s, k, attributes[k]),
                           attributes, keys \ {k})

\* span.set_status(status): ignored once the status is OK, and a status of
\* UNSET is ignored; an ERROR status replaces an earlier ERROR status.
set_status(s, status) ==
    IF ~is_recording(s) THEN s
    ELSE IF s.status.status_code = "OK" \/ status.status_code = "UNSET" THEN s
    ELSE [s EXCEPT !.status = status]

\* span.add_event(name, attributes)
add_event(s, name) ==
    IF is_recording(s)
    THEN [s EXCEPT !.events = Append(@, [name |-> name, type |-> None, message |-> None])]
    ELSE s

\* span.record_exception(e): one event named "exception" with the type and
\* the message of e
record_exception(s, e) ==
    IF is_recording(s)
    THEN [s EXCEPT !.events = Append(@, [name |-> "exception", type |-> e.type, message |-> e.msg])]
    ELSE s

\* span.end()
end(s) == [s EXCEPT !.end_calls = @ + 1]

\* Leaving `with tracer.start_as_current_span(name) as span:`, with the
\* defaults record_exception=True, set_status_on_exception=True,
\* end_on_exit=True: an exception deriving from Exception is recorded on the
\* span and sets its status, then the span ends, on every path.
start_as_current_span_exit(s, out) ==
    end(IF out.kind = "raise" /\ out.err.exc /\ is_recording(s)
        THEN set_status(record_exception(s, out.err),
                        Status("ERROR", TypeAndStr(out.err)))
        ELSE s)



(***************************************************************************)
(* The wrappers of trace_function and the scope of trace_span, from the    *)
(* point where the wrapped code has finished with `out` (a return or a     *)
(* raise) to the point where the caller has the result: the span as it is  *)
(* left, and what the caller receives.                                     *)
(***************************************************************************)
\* the try/except of sync_wrapper
sync_wrapper_try(s, out) ==
    IF out.kind = "return"
    THEN [span |-> set_status(s, Status("OK", NoDescription)), result |-> out]
    ELSE IF out.err.exc
    THEN [span |-> record_exception(set_status(s, Status("ERROR", Str(out.err))), out.err),
          result |-> out]
    ELSE [span |-> s, result |-> out]

\* sync_wrapper written without the with statement: the span is ended by a
\* span.end() after the normal return only
sync_wrapper_without_with(s, out) ==
    LET r == sync_wrapper_try(s, out)
    IN [span |-> IF out.kind = "return" THEN end(r.span) ELSE r.span, result |-> r.result]

\* sync_wrapper, from the return of func to the caller
sync_wrapper(s, out) ==
    LET r == sync_wrapper_try(s, out)
    IN [span |-> start_as_current_span_exit(r.span, r.result), result |-> r.result]

\* the try/except of async_wrapper with `except BaseException`
async_wrapper_try_base(s, out) ==
    IF out.kind = "return"
    THEN [span |-> set_status(s, Status("OK", NoDescription)), result |-> out]
    ELSE [span |-> record_exception(set_status(s, Status("ERROR", Str(out.err))), out.err),
          result |-> out]

\* the try/except of async_wrapper
async_wrapper_try(s, out) ==
    IF out.kind = "return"
    THEN [span |-> set_status(s, Status("OK", NoDescription)), result |-> out]
    ELSE IF out.err.exc
    THEN [span |-> record_exception(set_status(s, Status("ERROR", Str(out.err))), out.err),
          result |-> out]
    ELSE [span |-> s, result |-> out]

\* async_wrapper, from the end of `await func(...)` to the caller
async_wrapper(s, out) ==
    LET r == async_wrapper_try(s, out)
    IN [span |-> start_as_current_span_exit(r.span, r.result), result |-> r.result]

\* the try/except of trace_span around its yield; the with statement of the
\* caller receives nothing on a normal exit
trace_span_try(s, out) ==
    IF out.kind = "return"
    THEN [span |-> set_status(s, Status("OK", NoDescription)), result |-> Returned(None)]
    ELSE IF out.err.exc
    THEN [span |-> record_exception(set_status(s, Status("ERROR", Str(out.err))), out.err),
          result |-> out]
    ELSE [span |-> s, result |-> out]

\* trace_span, from the end of the caller's block to the statement after it
trace_span(s, out) ==
    LET r == trace_span_try(s, out)
    IN [span |-> start_as_current_span_exit(r.span, r.result), result |-> r.result]

\* f"{func.__module__}.{func.__name__}"
QualifiedName(f) == IF f = "checked" THEN "app.checked" ELSE "app.fetch"
\* name = span_name or f"{func.__module__}.{func.__name__}"
SpanName(span_name, f) == IF span_name # None THEN span_name ELSE QualifiedName(f)

(***************************************************************************)
(* State.                                                                  *)
(***************************************************************************)
VARIABLES
    tracer,     \* the module-level tracer handle: NoTracer or a Tracer object
    spans,      \* the spans that have started and not ended, by span id
    context,    \* the current span of each context (NoSpan if none)
    stack,      \* per call chain: the open wrapper calls and scopes, innermost last
    outcome,    \* what the step just taken delivered to its caller, if anything
    lastOp,     \* the utility the step just taken ran, and the span it changed
    url,        \* the request URL given to _detect_api_provider
    provider    \* what _detect_api_provider returned for url ("unset" before the call)

vars == <<tracer, spans, context, stack, outcome, lastOp, url, provider>>

\* one context for the whole process (a plain global)
ContextKeyGlobal(c) == "t1"

\* The context a call chain reads and writes its current span in: contextvars
\* gives every thread and every asyncio task a context of its own.
ContextKey(c) == c

\* the current span kept in a module-level variable: the span started last
get_current_span_last(c) ==
    IF DOMAIN spans = {} THEN NoSpan
    ELSE CHOOSE i \in DOMAIN spans : \A j \in DOMAIN spans : j <= i

\* trace.get_current_span(), in call chain c
get_current_span(c) == context[ContextKey(c)]

Top(c) == stack[c][Len(stack[c])]
\* the chain is executing code (it is not suspended at an await)
Running(c) == IF stack[c] = <<>> THEN TRUE ELSE Top(c).pc = "body"
\* span ids not in use
FreeIds == (1..MaxOpen) \ DOMAIN spans

NoOp == [op |-> None, chain |-> None, target |-> NoSpan]

\* nothing delivered
NoOutcome ==
    [kind |-> "none", value |-> None, err |-> NoError,
     func |-> None, x |-> None, via |-> None, cause |-> None,
     opened |-> FALSE, before |-> NewSpan(None, None), after |-> NewSpan(None, None)]

\* The module as imported: `tracer = None`, then init_telemetry() at import
\* when OTEL_TRACE_ENABLED is "true".
ModuleInit(otel_trace_enabled) == IF otel_trace_enabled THEN 1 ELSE NoTracer

Init ==
    /\ \E enabled \in BOOLEAN : tracer = ModuleInit(enabled)
    /\ spans = <<>>
    /\ context = [k \in Chains |-> NoSpan]
    /\ stack = [c \in Chains |-> <<>>]
    /\ outcome = NoOutcome
    /\ lastOp = NoOp
    /\ url = <<>>
    /\ provider = "unset"

\* init_telemetry(): `tracer = trace.get_tracer(__name__, SERVICE_VERSION)`
\* binds the global to a new Tracer object on every call.
init_telemetry ==
    /\ tracer < MaxInit
    /\ tracer' = tracer + 1
    /\ outcome' = NoOutcome
    /\ lastOp' = NoOp
    /\ UNCHANGED <<spans, context, stack, url, provider>>

\* Entering a wrapper or a scope: `with tracer.start_as_current_span(name)`
\* and the attribute loop, up to the call of the wrapped code.
Enter(c, kind, name, attributes, f) ==
    /\ Running(c)
    /\ lastOp' = NoOp
    /\ UNCHANGED <<tracer, url, provider>>
    /\ IF tracer = NoTracer
       THEN \* None has no attribute start_as_current_span: func is not called
            /\ \E x \in Inputs :
                outcome' = [NoOutcome EXCEPT !.kind = "raise", !.err = AttributeErrorNone,
                                             !.func = f, !.x = x, !.via = kind,
                                             !.cause = "tracer"]
            /\ UNCHANGED <<spans, context, stack>>
       ELSE /\ FreeIds # {}
            /\ LET id == CHOOSE i \in FreeIds : \A j \in FreeIds : i <= j
                   s == set_attributes(NewSpan(name, c), attributes, Keys)
               IN /\ spans' = [i \in DOMAIN spans \cup {id} |-> IF i = id THEN s ELSE spans[i]]
                  /\ context' = [context EXCEPT ![ContextKey(c)] = id]
                  /\ stack' = [stack EXCEPT ![c] = Append(@,
                         [kind |-> kind, span |-> id, token |-> get_current_span(c),
                          func |-> f, pc |-> "body"])]
            /\ outcome' = NoOutcome

\* Leaving a wrapper or a scope with r = [span, result]: the context is
\* restored from the token, the span has ended and is handed to the span
\* processors, and the caller receives the result.
Exit(c, r, x, cause) ==
    LET fr == Top(c) IN
    /\ spans' = [i \in DOMAIN spans \ {fr.span} |-> spans[i]]
    /\ context' = [context EXCEPT ![ContextKey(c)] = fr.token]
    /\ stack' = [stack EXCEPT ![c] = SubSeq(@, 1, Len(@) - 1)]
    /\ outcome' = [kind |-> r.result.kind, value |-> r.result.value, err |-> r.result.err,
                   func |-> fr.func, x |-> x, via |-> fr.kind, cause |-> cause,
                   opened |-> TRUE, before |-> spans[fr.span], after |-> r.span]
    /\ lastOp' = NoOp
    /\ UNCHANGED <<tracer, url, provider>>

\* A call of a trace_function-decorated function: the decorator returned
\* async_wrapper for a coroutine function (which only a coroutine can await)
\* and sync_wrapper otherwise.
trace_function_call(c) ==
    \E f \in SyncFuncs \cup AsyncFuncs :
        /\ iscoroutinefunction(f) => \A i \in 1..Len(stack[c]) : stack[c][i].kind # "sync"
        /\ Enter(c, IF iscoroutinefunction(f) THEN "async" ELSE "sync",
                 SpanName(span_name_of(f), f), attributes_of(f), f)

\* the wrapped plain function, called with x, returns or raises
sync_wrapper_finish(c) ==
    /\ stack[c] # <<>> /\ Top(c).kind = "sync" /\ Top(c).pc = "body"
    /\ \E x \in Inputs :
        Exit(c, sync_wrapper(spans[Top(c).span], Apply(Top(c).func, x)), x, "func")

\* the wrapped coroutine, called with x, returns or raises
async_wrapper_finish(c) ==
    /\ stack[c] # <<>> /\ Top(c).kind = "async" /\ Top(c).pc = "body"
    /\ \E x \in Inputs :
        Exit(c, async_wrapper(spans[Top(c).span], Apply(Top(c).func, x)), x, "func")

\* `with trace_span("scope", attributes):` around a block of the caller
trace_span_enter(c) ==
    \E f \in Blocks : Enter(c, "scope", "scope", attributes_of(f), f)

\* the block ends or raises
trace_span_exit(c) ==
    /\ stack[c] # <<>> /\ Top(c).kind = "scope" /\ Top(c).pc = "body"
    /\ \E x \in Inputs :
        Exit(c, trace_span(spans[Top(c).span], Apply(Top(c).func, x)), x, "func")

\* what leaves the innermost wrapper or scope of c when e is raised in it
Leave(c, e) ==
    CASE Top(c).kind = "sync" -> sync_wrapper(spans[Top(c).span], Raised(e))
      [] Top(c).kind = "async" -> async_wrapper(spans[Top(c).span], Raised(e))
      [] Top(c).kind = "scope" -> trace_span(spans[Top(c).span], Raised(e))

\* The chain suspends at an await of the innermost wrapped coroutine (or of a
\* trace_span block inside one): other chains run meanwhile.
Suspend(c) ==
    /\ stack[c] # <<>> /\ Top(c).pc = "body"
    /\ \A i \in 1..Len(stack[c]) : stack[c][i].kind # "sync"
    /\ \E i \in 1..Len(stack[c]) : stack[c][i].kind = "async"
    /\ stack' = [stack EXCEPT ![c][Len(stack[c])].pc = "await"]
    /\ outcome' = NoOutcome
    /\ lastOp' = [op |-> "suspend", chain |-> c, target |-> NoSpan]
    /\ UNCHANGED <<tracer, spans, context, url, provider>>

\* The event loop resumes the chain.
Resume(c) ==
    /\ stack[c] # <<>> /\ Top(c).pc = "await"
    /\ stack' = [stack EXCEPT ![c][Len(stack[c])].pc = "body"]
    /\ outcome' = NoOutcome
    /\ lastOp' = [op |-> "resume", chain |-> c, target |-> NoSpan]
    /\ UNCHANGED <<tracer, spans, context, url, provider>>

\* The host cancels the suspended chain: asyncio.CancelledError is raised at
\* the await and leaves the innermost wrapper or scope.
Cancel(c) ==
    /\ stack[c] # <<>> /\ Top(c).pc = "await"
    /\ Exit(c, Leave(c, CancelledError), None, "cancel")

\* KeyboardInterrupt is raised in the running wrapped code and leaves the
\* innermost wrapper or scope.
Interrupt(c) ==
    /\ stack[c] # <<>> /\ Top(c).pc = "body"
    /\ Exit(c, Leave(c, KeyboardInt), None, "interrupt")

(***************************************************************************)
(* The utilities on the current span.                                      *)
(***************************************************************************)
\* `span and span.is_recording()` for span = get_current_span()
Active(c) ==
    /\ get_current_span(c) \in DOMAIN spans
    /\ is_recording(spans[get_current_span(c)])

\* inputs of the utilities
EventNames == {"cache_miss"}
UtilityAttributes == {<<"note", "slow">>}
UtilityErrors == {ValueErrorBad}

\* the changes the utilities have made to the open spans: the events they
\* added and the attributes they set
RECURSIVE Changes(_)
Changes(ids) ==
    IF ids = {} THEN 0
    ELSE LET i == CHOOSE i \in ids : TRUE
         IN Len(spans[i].events)
            + Cardinality({kv \in UtilityAttributes : spans[i].attributes[kv[1]] = kv[2]})
            + Changes(ids \ {i})
\* the utility of chain c may change a span (a bound of the model)
MayChange(c) == Active(c) => Changes(DOMAIN spans) < MaxChanges

\* a utility ran in chain c: nothing is delivered, nothing is raised
Utility(c, op) ==
    /\ lastOp' = [op |-> op, chain |-> c,
                  target |-> IF Active(c) THEN get_current_span(c) ELSE NoSpan]
    /\ outcome' = NoOutcome
    /\ UNCHANGED <<tracer, context, stack, url, provider>>

\* add_span_attribute(key, value), called in chain c
add_span_attribute(c) ==
    /\ Running(c)
    /\ MayChange(c)
    /\ \E kv \in UtilityAttributes :
        spans' = IF Active(c)
                 THEN [spans EXCEPT ![get_current_span(c)] = set_attribute(@, kv[1], kv[2])]
                 ELSE spans
    /\ Utility(c, "add_span_attribute")

\* add_span_event(name), called in chain c
add_span_event(c) ==
    /\ Running(c)
    /\ MayChange(c)
    /\ \E name \in EventNames :
        spans' = IF Active(c)
                 THEN [spans EXCEPT ![get_current_span(c)] = add_event(@, name)]
                 ELSE spans
    /\ Utility(c, "add_span_event")

\* set_span_error(error), called in chain c
set_span_error(c) ==
    /\ Running(c)
    /\ MayChange(c)
    /\ \E error \in UtilityErrors :
        spans' = IF Active(c)
                 THEN [spans EXCEPT ![get_current_span(c)] =
                          record_exception(set_status(@, Status("ERROR", Str(error))), error)]
                 ELSE spans
    /\ Utility(c, "set_span_error")

\* the operations of the module that instrumented code runs
Step(c) ==
    \/ trace_function_call(c)
    \/ sync_wrapper_finish(c)
    \/ async_wrapper_finish(c)
    \/ trace_span_enter(c)
    \/ trace_span_exit(c)
    \/ Suspend(c)
    \/ Resume(c)
    \/ Cancel(c)
    \/ Interrupt(c)
    \/ add_span_attribute(c)
    \/ add_span_event(c)
    \/ set_span_error(c)

\* The program after start-up: tracing was initialized at import or not at
\* all, and the call chains run instrumented code.
Next == \E c \in Chains : Step(c)

Spec == Init /\ [][Next]_vars

\* The program with init_telemetry() called at any time, as main.py does.
NextInit == init_telemetry \/ Next

SpecInit == Init /\ [][NextInit]_vars


(***************************************************************************)
(* _detect_api_provider.  A URL is a string, modelled as the sequence of   *)
(* its characters.                                                         *)
(***************************************************************************)
SimHost == <<"a","p","i",".","s","i","m",".","d","u","n","e",".","c","o","m">>
CovalentHost == <<"a","p","i",".","c","o","v","a","l","e","n","t","h","q",".","c","o","m">>
MoralisHost == <<"d","e","e","p","-","i","n","d","e","x",".","m","o","r","a","l","i","s",".","i","o">>
GeminiHost == <<"g","e","n","e","r","a","t","i","v","e","l","a","n","g","u","a","g","e",".","g","o","o","g","l","e","a","p","i","s",".","c","o","m">>

\* `sub in s` on Python strings
Contains(sub, s) ==
    \E i \in 1..(Len(s) - Len(sub) + 1) : SubSeq(s, i, i + Len(sub) - 1) = sub

\* the same chain with the first two tests exchanged
detect_api_provider_covalent_first(u) ==
    IF Contains(CovalentHost, u) THEN "covalent"
    ELSE IF Contains(SimHost, u) THEN "sim"
    ELSE IF Contains(MoralisHost, u) THEN "moralis"
    ELSE IF Contains(GeminiHost, u) THEN "gemini"
    ELSE None

\* _detect_api_provider(url)
_detect_api_provider(u) ==
    IF Contains(SimHost, u) THEN "sim"
    ELSE IF Contains(CovalentHost, u) THEN "covalent"
    ELSE IF Contains(MoralisHost, u) THEN "moralis"
    ELSE IF Contains(GeminiHost, u) THEN "gemini"
    ELSE None

\* The request URLs of the model: up to MaxPieces of these pieces, joined.
Scheme == <<"h","t","t","p","s",":","/","/">>
Path == <<"/","v","1">>
SimHostCut == <<"a","p","i",".","s","i","m",".","d","u","n","e",".","c","o">>
LetterM == <<"m">>
SimHostUpper == <<"A","P","I",".","S","I","M",".","D","U","N","E",".","C","O","M">>
Pieces ==
    {SimHost, CovalentHost, MoralisHost, GeminiHost,
     Scheme, Path, SimHostCut, LetterM, SimHostUpper}

RECURSIVE UrlsOf(_)
UrlsOf(n) ==
    IF n = 0 THEN {<<>>}
    ELSE LET shorter == UrlsOf(n - 1)
         IN shorter \cup {u \o p : u \in shorter, p \in Pieces}
Urls == UrlsOf(MaxPieces)

InitDetect ==
    /\ tracer = NoTracer
    /\ spans = <<>>
    /\ context = [k \in Chains |-> NoSpan]
    /\ stack = [c \in Chains |-> <<>>]
    /\ outcome = NoOutcome
    /\ lastOp = NoOp
    /\ url \in Urls
    /\ provider = "unset"

\* provider = _detect_api_provider(url)
Detect ==
    /\ provider = "unset"
    /\ provider' = _detect_api_provider(url)
    /\ UNCHANGED <<tracer, spans, context, stack, outcome, lastOp, url>>

SpecDetect == InitDetect /\ [][Detect]_vars


(***************************************************************************)
(* The claims.                                                             *)
(***************************************************************************)
\* the open wrapper calls and scopes, as <<chain, position>>
Frames == {ck \in Chains \X (1..MaxOpen) : ck[2] <= Len(stack[ck[1]])}
\* the exit just taken was that of a trace_function wrapper
ViaWrapper == outcome.via \in {"sync", "async"}
UtilityOps == {"add_span_attribute", "add_span_event", "set_span_error"}

C2_RaisesSameErrorSpanError ==
    (outcome.opened /\ ViaWrapper /\ outcome.cause = "func"
       /\ Apply(outcome.func, outcome.x).kind = "raise") =>
        /\ outcome.kind = "raise"
        /\ outcome.err = Apply(outcome.func, outcome.x).err
        /\ outcome.after.end_calls = 1
        /\ outcome.after.status = Status("ERROR", Str(outcome.err))

\* C3: when the wrapped callable f does not raise, the wrapped call returns
\* exactly f(x) and the span it opened ends with status OK.
C3_ReturnsResultSpanOk ==
    (outcome.kind # "none" /\ ViaWrapper /\ outcome.cause \in {"func", "tracer"}
       /\ Apply(outcome.func, outcome.x).kind = "return") =>
        /\ outcome.kind = "return"
        /\ outcome.value = Apply(outcome.func, outcome.x).value
        /\ outcome.opened
        /\ outcome.after.status.status_code = "OK"

\* C4: while the tracer handle is None, a wrapped call or a trace_span scope
\* delivers what the instrumented code itself returns or raises, and no error
\* of the telemetry reaches the caller.
C4_UninitializedIsNoOp ==
    (tracer = NoTracer /\ outcome.kind # "none") =>
        /\ outcome.cause # "tracer"
        /\ outcome.kind = Apply(outcome.func, outcome.x).kind
        /\ outcome.err = Apply(outcome.func, outcome.x).err

\* C5: _detect_api_provider returns the tag of the first entry of the table
\* (sim, covalent, moralis, gemini) whose host occurs in the URL, and None
\* exactly when no host occurs.
ProviderTable ==
    << <<SimHost, "sim">>, <<CovalentHost, "covalent">>,
       <<MoralisHost, "moralis">>, <<GeminiHost, "gemini">> >>
C5_FirstMatchWins ==
    provider # "unset" =>
        /\ provider = None <=> \A i \in 1..Len(ProviderTable) : ~Contains(ProviderTable[i][1], url)
        /\ \A i \in 1..Len(ProviderTable) :
            (/\ Contains(ProviderTable[i][1], url)
             /\ \A j \in 1..(i - 1) : ~Contains(ProviderTable[j][1], url))
            => provider = ProviderTable[i][2]

\* C5 witness: a URL in which the covalent host comes before the sim host is
\* tagged sim, the earlier entry of the table.
C5_Witness ==
    /\ url = CovalentHost \o SimHost
    /\ provider = "sim"

\* C6: a utility called in a chain with no open span (tracing initialized or
\* not) raises nothing and changes no span.
C6_NoSpanNoEffect ==
    [][(lastOp'.op \in UtilityOps /\ stack[lastOp'.chain] = <<>>) =>
           (spans' = spans /\ outcome'.kind # "raise")]_vars

\* C6 witness: set_span_error ran in a chain with no open span, and changed
\* nothing, while the other chain has a span open.
C6_Witness ==
    /\ lastOp.op = "set_span_error"
    /\ stack[lastOp.chain] = <<>>
    /\ lastOp.target = NoSpan
    /\ \E i \in DOMAIN spans : spans[i].events = <<>> /\ spans[i].status.status_code = "UNSET"

\* C7: at every point between open and close, suspended or running, the
\* current span of a chain is the span of its innermost open wrapper; a chain
\* never observes a span another chain started; and a utility changes only a
\* span of the chain that called it.
C7_SpanStaysInItsChain ==
    /\ \A c \in Chains : stack[c] # <<>> => get_current_span(c) = Top(c).span
    /\ \A c \in Chains : get_current_span(c) # NoSpan =>
        /\ get_current_span(c) \in DOMAIN spans
        /\ spans[get_current_span(c)].chain = c
    /\ lastOp.target # NoSpan =>
        /\ lastOp.target \in DOMAIN spans
        /\ spans[lastOp.target].chain = lastOp.chain

\* C7 witness: a chain has just resumed inside a wrapped coroutine while the
\* other chain has a span open too.
C7_Witness ==
    /\ lastOp.op = "resume"
    /\ Top(lastOp.chain).kind = "async"
    /\ \A c \in Chains : stack[c] # <<>>

C9_OneErrorEvent ==
    (outcome.opened /\ ViaWrapper /\ outcome.cause = "func" /\ outcome.kind = "raise") =>
        /\ Len(outcome.after.events) = Len(outcome.before.events) + 1
        /\ outcome.after.events[Len(outcome.after.events)].message = outcome.err.msg

\* C10: once the tracer handle is set, nothing assigns it another value.
C10_TracerSetOnce == [][tracer # NoTracer => tracer' = tracer]_vars

=============================================================================
